---- MODULE Spec2Model ----
(***************************************************************************)
(* A model of coss (tastatham/coss): areal interpolation of one variable   *)
(* from source polygons to target polygons.                                *)
(*                                                                         *)
(* Geometry is discretised: the plane is a strip of NCells unit cells, a   *)
(* geometry is a set of cells (the caller's polygons are runs of adjacent  *)
(* cells), its area is the number of its cells and the intersection of two *)
(* geometries is the set of cells they share.                              *)
(* Numbers are exact rationals <<n, d>> extended with the two              *)
(* values a float division by zero produces, inf = <<1, 0>> and            *)
(* NaN = <<0, 0>>; NaN is also pandas' missing value.                      *)
(*                                                                         *)
(* A (Geo)DataFrame is a record                                            *)
(*    [crs, index, geometry, cols]                                         *)
(* where index is the sequence of row labels, geometry the sequence of     *)
(* polygons and cols maps every column name to its sequence of values.     *)
(***************************************************************************)
EXTENDS Integers, Sequences, FiniteSets, TLC

VARIABLES
    sources,    \* the caller's source collection, as the calls so far left it
    targets,    \* the caller's target collection, as the calls so far left it
    given,      \* the two collections as the caller built them
    call,       \* the last call: entry point and arguments
    result,     \* what the last call returned or raised
    steps,      \* the stages the last call computed, in order
    resamples   \* what the last call asked of the resampler, and what it drew

vars == <<sources, targets, given, call, result, steps, resamples>>

\* ------------------------------------------------------------------ bounds
NCells == 4
MaxVal == 2
MaxCoef == 2
MaxR == 2

Cells == 1..NCells

\* Python's None, as a parameter value and as a returned value.
None == "None"

\* ------------------------------------------------------- float arithmetic
RECURSIVE GCD(_, _)
GCD(a, b) == IF b = 0 THEN a ELSE GCD(b, a % b)

\* A quotient n/d in lowest terms; x/0 is inf for x > 0 and NaN for x = 0.
Norm(n, d) ==
    IF d = 0 THEN <<IF n = 0 THEN 0 ELSE 1, 0>>
    ELSE LET g == GCD(n, d) IN <<n \div g, d \div g>>

R(n) == <<n, 1>>
NaN == <<0, 0>>
Inf == <<1, 0>>

RMul(x, y) == Norm(x[1] * y[1], x[2] * y[2])

RDiv(x, y) == Norm(x[1] * y[2], x[2] * y[1])

RAdd(x, y) ==
    IF x[2] = 0 /\ y[2] = 0
    THEN (IF x = NaN \/ y = NaN THEN NaN ELSE Inf)
    ELSE Norm(x[1] * y[2] + y[1] * x[2], x[2] * y[2])

\* Python's builtin sum(series): a left fold from 0, NaN propagates.
RECURSIVE BuiltinSum(_)
BuiltinSum(s) ==
    IF Len(s) = 0 THEN R(0) ELSE RAdd(BuiltinSum(SubSeq(s, 1, Len(s) - 1)), s[Len(s)])

NotNaN(x) == x # NaN

\* pandas' Series.sum() and groupby().sum(): missing values are skipped.
PandasSum(s) == BuiltinSum(SelectSeq(s, NotNaN))

\* ------------------------------------------------------------- dataframes
Frame(crs, index, geometry, cols) ==
    [crs |-> crs, index |-> index, geometry |-> geometry, cols |-> cols]

NoFrame == Frame(None, <<>>, <<>>, <<>>)

NRows(df) == Len(df.index)

Columns(df) == DOMAIN df.cols

\* df[name] = vals
WithColumn(df, name, vals) ==
    [df EXCEPT !.cols = (name :> vals) @@ [c \in DOMAIN df.cols \ {name} |-> df.cols[c]]]

\* df.area
Areas(df) == [i \in 1..Len(df.geometry) |-> R(Cardinality(df.geometry[i]))]

\* pandas' default index of a new frame: 0 .. n-1.
RangeIndex(n) == [i \in 1..n |-> i - 1]

\* The rows of df at the positions rows, in that order, under a new RangeIndex.
Take(df, rows) ==
    Frame(df.crs, RangeIndex(Len(rows)),
          [k \in 1..Len(rows) |-> df.geometry[rows[k]]],
          [c \in DOMAIN df.cols |-> [k \in 1..Len(rows) |-> df.cols[c][rows[k]]]])

Range(s) == {s[k] : k \in DOMAIN s}

\* The members of a finite set of integers in ascending order.
RECURSIVE SortedSeq(_)
SortedSeq(S) ==
    IF S = {} THEN <<>>
    ELSE LET m == CHOOSE x \in S : \A y \in S : x <= y
         IN <<m>> \o SortedSeq(S \ {m})

\* The row positions 1..Len(keys) ordered by key, ties in row order.
RECURSIVE OrderBy(_, _)
OrderBy(keys, left) ==
    IF left = {} THEN <<>>
    ELSE LET m == CHOOSE i \in left :
                    \A j \in left : keys[i] < keys[j] \/ (keys[i] = keys[j] /\ i <= j)
         IN <<m>> \o OrderBy(keys, left \ {m})

\* The resampler was not called.
NoSample == [r |-> 0, kernel |-> None, metric |-> None, bandwidth |-> 0, gs |-> <<>>]

\* What a call hands back: a frame, a pair of arrays, None, or a raised
\* exception; with the caller's two collections as the call left them, the
\* stages it computed and its use of the resampler.
Outcome(kind, err, df, S, T, st) ==
    [kind |-> kind, err |-> err, df |-> df, sources |-> S, targets |-> T, steps |-> st,
     resamples |-> NoSample]

Raise(err, S, T, st) == Outcome("raise", err, NoFrame, S, T, st)

Return(df, S, T, st) == Outcome("frame", "", df, S, T, st)

ReturnNone(S, T, st) == Outcome("None", "", NoFrame, S, T, st)

\* ------------------------------------------------ areal_weighting.py
\* The name of the reference-area column (areal_weighting.py:173).
area == "Aj"

\* gpd.overlay(targets, sources, how="intersection"): one fragment per pair of
\* a target row i and a source row j whose polygons share area.
Fragments(T, S) ==
    {<<i, j>> \in (1..Len(T.geometry)) \X (1..Len(S.geometry)) :
        T.geometry[i] \cap S.geometry[j] # {}}

\* The columns of the overlay: a name both frames carry is renamed (suffixes
\* _1 and _2), so only a name exactly one of them carries stays addressable.
OverlayColumns(T, S) == (Columns(T) \cup Columns(S)) \ (Columns(T) \cap Columns(S))

\* The value of overlay column c on the fragment of target row i, source row j.
OverlayValue(T, S, c, i, j) == IF c \in Columns(T) THEN T.cols[c][i] ELSE S.cols[c][j]

\* Ei with the target polygon's area as the reference area, whatever the kind.
Ei_AreaOfTarget(T, S, var, i, j) ==
    RMul(OverlayValue(T, S, var, i, j),
         RDiv(R(Cardinality(T.geometry[i] \cap S.geometry[j])),
              R(Cardinality(T.geometry[i]))))

\* Ei with the source polygon's area as the reference area, whatever the kind.
Ei_AreaOfSource(T, S, var, i, j) ==
    RMul(OverlayValue(T, S, var, i, j),
         RDiv(R(Cardinality(T.geometry[i] \cap S.geometry[j])),
              R(Cardinality(S.geometry[j]))))

\* Ei = Vj * (Ai / Aj) for one fragment (areal_weighting.py:190-195).
Ei(T, S, var, i, j) ==
    LET Ai == R(Cardinality(T.geometry[i] \cap S.geometry[j]))
        Aj == OverlayValue(T, S, area, i, j)
        Wij == RDiv(Ai, Aj)
        Vj == OverlayValue(T, S, var, i, j)
    IN RMul(Vj, Wij)

\* Not a sum: the Ei of one fragment of the set alone.
SumEi_OneFragment(T, S, var, frags) ==
    IF frags = {} THEN R(0)
    ELSE LET f == CHOOSE x \in frags : TRUE
         IN RMul(OverlayValue(T, S, var, f[1], f[2]),
                 RDiv(R(Cardinality(T.geometry[f[1]] \cap S.geometry[f[2]])),
                      OverlayValue(T, S, area, f[1], f[2])))

\* The sum of Ei over a set of fragments.
RECURSIVE SumEi(_, _, _, _)
SumEi(T, S, var, frags) ==
    IF frags = {} THEN R(0)
    ELSE LET f == CHOOSE x \in frags : TRUE
         IN RAdd(Ei(T, S, var, f[1], f[2]), SumEi(T, S, var, frags \ {f}))

\* Gk = intersect[[tid, var]].groupby(by=tid).sum(): a frame indexed by the
\* target identifiers that own a fragment, ascending, holding the summed Ei.
GroupBySum(T, S, tid, var) ==
    LET frags == Fragments(T, S)
        keys == SortedSeq({OverlayValue(T, S, tid, f[1], f[2]) : f \in frags})
        est == [k \in 1..Len(keys) |->
                  SumEi(T, S, var,
                        {f \in frags : OverlayValue(T, S, tid, f[1], f[2]) = keys[k]})]
    IN Frame(None, keys, <<>>, (var :> est))

\* The rescale with its factor upside down: sum(Gk[var]) / sum(sources[var]).
RescaleTotal_Inverted(Gk, S, var) ==
    LET w == RDiv(BuiltinSum(Gk.cols[var]), BuiltinSum(S.cols[var]))
    IN WithColumn(Gk, var, [k \in 1..Len(Gk.index) |-> RMul(Gk.cols[var][k], w)])

\* Gk[var] = Gk[var] * (sum(sources[var]) / sum(Gk[var])) (areal_weighting.py:200-202).
RescaleTotal(Gk, S, var) ==
    LET w == RDiv(BuiltinSum(S.cols[var]), BuiltinSum(Gk.cols[var]))
    IN WithColumn(Gk, var, [k \in 1..Len(Gk.index) |-> RMul(Gk.cols[var][k], w)])

\* The estimate Gk holds for identifier key, missing when Gk has no such row.
Lookup(Gk, var, key) ==
    IF \E k \in 1..Len(Gk.index) : Gk.index[k] = key
    THEN Gk.cols[var][CHOOSE k \in 1..Len(Gk.index) : Gk.index[k] = key]
    ELSE NaN

InGk(Gk, key) == \E k \in 1..Len(Gk.index) : Gk.index[k] = key

\* pd.merge(targets, Gk, on=tid, how=...): inner keeps the matched target rows
\* in the targets' order; outer keeps every target row, ordered by key.
Merge(T, Gk, tid, var, how) ==
    LET n == NRows(T)
        rows == IF how = "outer"
                THEN OrderBy(T.cols[tid], 1..n)
                ELSE SelectSeq([i \in 1..n |-> i], LAMBDA i : InGk(Gk, T.cols[tid][i]))
        left == Take(T, rows)
    IN WithColumn(left, var, [k \in 1..Len(rows) |-> Lookup(Gk, var, T.cols[tid][rows[k]])])

_areal_weighting_single(S, T, extensive, intensive, weights, sid, tid, geoms, all_geoms) ==
    IF extensive # None /\ intensive # None THEN Raise("ValueError", S, T, <<>>)
    ELSE IF intensive # None /\ weights # "sum" THEN Raise("ValueError", S, T, <<>>)
    ELSE
    LET var == IF extensive # None THEN extensive ELSE intensive IN
    IF var \in Columns(T) THEN Raise("ValueError", S, T, <<>>)
    ELSE
    LET S1 == IF extensive # None THEN WithColumn(S, area, Areas(S)) ELSE S
        T1 == IF extensive # None THEN T ELSE WithColumn(T, area, Areas(T))
    IN
    IF ~ ({tid, area, var} \subseteq OverlayColumns(T1, S1))
    THEN Raise("KeyError", S1, T1, <<"area", "overlay">>)
    ELSE
    LET Gk0 == GroupBySum(T1, S1, tid, var)
        Gk == IF weights = "total" THEN RescaleTotal(Gk0, S1, var) ELSE Gk0
        st == <<"area", "overlay", "groupby">>
              \o (IF weights = "total" THEN <<"rescale">> ELSE <<>>)
    IN
    IF geoms
    THEN IF tid \notin Columns(T1) THEN Raise("KeyError", S1, T1, st)
         ELSE IF all_geoms
         THEN Return(Merge(T1, Gk, tid, var, "outer"), S1, T1, st \o <<"merge">>)
         ELSE Return(Merge(T1, Gk, tid, var, "inner"), S1, T1, st \o <<"merge">>)
    ELSE Return(Gk, S1, T1, st)

_areal_weighting(S, T, extensive, intensive, weights, sid, tid, geoms, all_geoms) ==
    IF extensive # None /\ intensive = None
    THEN _areal_weighting_single(S, T, extensive, intensive, weights, sid, tid, geoms, all_geoms)
    ELSE IF extensive = None /\ intensive # None
    THEN _areal_weighting_single(S, T, extensive, intensive, weights, sid, tid, geoms, all_geoms)
    ELSE IF extensive # None /\ intensive # None
    THEN Raise("ValueError", S, T, <<>>)
    ELSE ReturnNone(S, T, <<>>)


\* --------------------------------------------------------------- dasy.py
\* The rows of df at the positions rows, keeping their labels, with geometry geom.
Rows(df, rows, geom) ==
    Frame(df.crs, [k \in 1..Len(rows) |-> df.index[rows[k]]],
          [k \in 1..Len(rows) |-> geom[rows[k]]],
          [c \in DOMAIN df.cols |-> [k \in 1..Len(rows) |-> df.cols[c][rows[k]]]])

\* The orders a library call that promises none may return n rows in.
Orders(n) == {p \in [1..n -> 1..n] : \A i, j \in 1..n : p[i] = p[j] => i = j}

\* gpd.clip(targets, mask): the part of every target inside the mask, targets
\* outside it dropped; geopandas promises no row order (order is the one taken).
Clip(T, mask, order) ==
    LET geom == [i \in 1..Len(T.geometry) |-> T.geometry[i] \cap mask]
    IN Rows(T, SelectSeq(order, LAMBDA i : geom[i] # {}), geom)

\* gpd.overlay(targets, mask, how="difference"): the part of every target
\* outside the mask, in the targets' order, under a new index.
Difference(T, mask) ==
    LET geom == [i \in 1..Len(T.geometry) |-> T.geometry[i] \ mask]
        kept == Rows(T, SelectSeq([i \in 1..Len(geom) |-> i], LAMBDA i : geom[i] # {}), geom)
    IN [kept EXCEPT !.index = RangeIndex(Len(kept.index))]

\* left[col] = right[col] for a filled left frame: pandas aligns on the index
\* labels, a label the right frame lacks gets a missing value.
AlignedColumn(index, right, col) ==
    [i \in 1..Len(index) |->
        IF \E k \in 1..Len(right.index) : right.index[k] = index[i]
        THEN right.cols[col][CHOOSE k \in 1..Len(right.index) : right.index[k] = index[i]]
        ELSE NaN]

\* areal_diff[extensive] * (sum(sources[extensive]) / sum(areal_diff[extensive]))
RescaleDasy(areal_diff, S, extensive) ==
    LET w == RDiv(BuiltinSum(S.cols[extensive]), BuiltinSum(areal_diff.cols[extensive]))
    IN WithColumn(areal_diff, extensive,
                  [k \in 1..NRows(areal_diff) |-> RMul(areal_diff.cols[extensive][k], w)])

_dasy(S, T, mask, how, extensive, intensive, weights, sid, tid, geoms, all_geoms, order) ==
    IF how \notin {"clip", "difference"} THEN Raise("ValueError", S, T, <<>>)
    ELSE
    LET diff == IF how = "clip" THEN Clip(T, mask, order) ELSE Difference(T, mask)
        aw == _areal_weighting(S, diff, extensive, intensive, weights, sid, tid, TRUE, FALSE)
        st == <<"mask">> \o aw.steps
    IN
    IF aw.kind = "raise" THEN Raise(aw.err, aw.sources, T, st)
    ELSE IF extensive = None /\ intensive # None THEN Return(aw.df, aw.sources, T, st)
    ELSE IF extensive # None /\ intensive = None
    THEN LET areal_diff == RescaleDasy(aw.df, aw.sources, extensive)
         IN Return(WithColumn(T, extensive, AlignedColumn(T.index, areal_diff, extensive)),
                   aw.sources, T, st \o <<"rescale", "assign">>)
    ELSE Raise("ValueError", aw.sources, T, st)

\* -------------------------------------------------------------- model.py
\* The prediction table: one predictor value per row, under its own index.
PredTable(index, x) == Frame(None, index, <<>>, ("x" :> x))

\* _model_fit: the family by the kind of variable; with both kinds or neither
\* no model is bound and `mod.fit()` is an UnboundLocalError.  A fit that
\* statsmodels rejects (fit_ok false) raises; a fitted model is its coefficient.
_model_fit(df_fit, extensive, intensive, fit_ok, coef) ==
    IF ~ ((extensive # None /\ intensive = None) \/ (extensive = None /\ intensive # None))
    THEN [err |-> "UnboundLocalError", coef |-> 0, steps |-> <<>>]
    ELSE IF ~ fit_ok THEN [err |-> "ModelError", coef |-> 0, steps |-> <<"fit">>]
    ELSE [err |-> "", coef |-> coef, steps |-> <<"fit">>]

\* fit_model.predict(df_pred): one prediction per row, in row order.
Predict(coef, df_pred) ==
    [k \in 1..NRows(df_pred) |-> RMul(R(coef), R(df_pred.cols["x"][k]))]

\* _model_pred with the test of the kind negated: intensive predictions are
\* scaled, extensive ones are not.
_model_pred_WrongKind(S, coef, df_pred, extensive, intensive) ==
    LET pred == Predict(coef, df_pred) IN
    IF ~ (extensive # None /\ intensive = None)
    THEN LET wts == RDiv(BuiltinSum(S.cols["pop"]), BuiltinSum(pred))
         IN [k \in 1..Len(pred) |-> RMul(pred[k], wts)]
    ELSE pred

\* _model_pred: extensive predictions are scaled to the sources' total.
_model_pred(S, coef, df_pred, extensive, intensive) ==
    LET pred == Predict(coef, df_pred) IN
    IF extensive # None /\ intensive = None
    THEN LET wts == RDiv(BuiltinSum(S.cols[extensive]), BuiltinSum(pred))
         IN [k \in 1..Len(pred) |-> RMul(pred[k], wts)]
    ELSE pred

_model(S, T, df_fit, df_pred, extensive, intensive, fit_ok, coef) ==
    LET m == _model_fit(df_fit, extensive, intensive, fit_ok, coef) IN
    IF m.err # "" THEN Raise(m.err, S, T, m.steps)
    ELSE IF extensive # None /\ intensive = None /\ extensive \notin Columns(S)
    THEN Raise("KeyError", S, T, <<"fit", "predict">>)
    ELSE
    LET pred == Frame(None, df_pred.index, <<>>,
                      ("pred" :> _model_pred(S, m.coef, df_pred, extensive, intensive)))
        var == IF extensive # None /\ intensive = None THEN extensive ELSE intensive
        T1 == WithColumn(T, var, AlignedColumn(T.index, pred, "pred"))
    IN Return(T1, S, T1, <<"fit", "predict", "assign">>)

\* ------------------------------------------------ areal_geobootstrap.py
\* An optional argument: Unset is Python's None, Some(n) the number n.
Unset == <<>>

Some(n) == <<n>>

RSub(x, y) == RAdd(x, <<0 - y[1], y[2]>>)

RLeq(x, y) == x[1] * y[2] <= y[1] * x[2]

\* The values of an array in ascending order.
RECURSIVE SortValues(_)
SortValues(a) ==
    IF Len(a) = 0 THEN <<>>
    ELSE LET m == CHOOSE i \in 1..Len(a) :
                    \A j \in 1..Len(a) : RLeq(a[i], a[j]) /\ (RLeq(a[j], a[i]) => i <= j)
         IN <<a[m]>> \o SortValues([k \in 1..(Len(a) - 1) |-> IF k < m THEN a[k] ELSE a[k + 1]])

\* np.nanmedian of one row: the middle value, or the mean of the two middle
\* values, of the values that are not missing.
nanmedian(a) ==
    LET v == SortValues(SelectSeq(a, NotNaN))
        n == Len(v)
    IN IF n = 0 THEN NaN
       ELSE IF n % 2 = 1 THEN v[(n + 1) \div 2]
       ELSE RDiv(RAdd(v[n \div 2], v[(n \div 2) + 1]), R(2))

nanmean(a) ==
    LET v == SelectSeq(a, NotNaN) IN RDiv(BuiltinSum(v), R(Len(v)))

\* np.nanvar of one row: the mean squared deviation from the mean (ddof = 0).
nanvar(a) ==
    LET v == SelectSeq(a, NotNaN)
        m == nanmean(a)
    IN RDiv(BuiltinSum([k \in 1..Len(v) |-> RMul(RSub(v[k], m), RSub(v[k], m))]),
            R(Len(v)))

\* The square root of a rational, kept exact as its radicand.
Sqrt(x) == [sqrt |-> x]

\* np.nanstd of one row.
nanstd(a) == Sqrt(nanvar(a))

\* The first r draws of a stream of draws (the stream repeats its seed).
Resample(seed, r) == [k \in 1..r |-> seed[((k - 1) % Len(seed)) + 1]]

\* geobootstrap(source_points, target_points, r, kernel, metric, bandwidth):
\* for every target, r source rows drawn with replacement; which rows is the
\* library's random choice, here the stream seeds[i] of target row i.
geobootstrap(S, T, r, kernel, metric, bandwidth, seeds) ==
    [r |-> r, kernel |-> kernel, metric |-> metric, bandwidth |-> bandwidth,
     gs |-> [i \in 1..NRows(T) |-> Resample(seeds[i], r)]]

\* The statistics of central tendency _areal_geobootstrap accepts.
groupbys == {"median"}

\* _areal_geobootstrap: the signature has no parameter for the statistic of
\* spread, so a call that names one (spread set) is a TypeError; the spread
\* returned is always np.nanstd.  The function works on copies.
_areal_geobootstrap(S, T, r, kernel, metric, bandwidth, col, sid, tid, groupby, spread, seeds) ==
    IF spread # None THEN Raise("TypeError", S, T, <<>>)
    ELSE IF groupby \notin groupbys THEN Raise("ValueError", S, T, <<>>)
    ELSE
    LET r1 == IF r = Unset THEN NRows(T) ELSE r[1]
        sampled == geobootstrap(S, T, r1, kernel, metric, bandwidth, seeds)
    IN
    IF col \notin Columns(S)
    THEN [Raise("KeyError", S, T, <<"points", "resample">>) EXCEPT !.resamples = sampled]
    ELSE
    LET gs == [i \in 1..NRows(T) |->
                 [k \in 1..r1 |-> S.cols[col][sampled.gs[i][k]]]]
        stats == [i \in 1..NRows(T) |-> nanmedian(gs[i])]
        std == [i \in 1..NRows(T) |-> nanstd(gs[i])]
    IN [Outcome("pair", "", Frame(None, RangeIndex(NRows(T)), <<>>,
                                  ("stats" :> stats) @@ ("std" :> std)),
                S, T, <<"points", "resample", "reduce">>)
        EXCEPT !.resamples = sampled]

\* ------------------------------------------------------------ utils.py
_check_crs_exists(gdf) == IF gdf.crs = None THEN "KeyError" ELSE ""

\* Prints a notice when the two differ; never raises.
_check_crs_match(S, T) == IF S.crs # T.crs THEN <<"crs_notice">> ELSE <<>>

IsUnique(s) == \A i, j \in 1..Len(s) : s[i] = s[j] => i = j

\* def _check_uid(uids): one positional parameter, a column of identifiers;
\* returns None.  A call with any other number of arguments is a TypeError.
_check_uid(args) ==
    IF Len(args) # 1 THEN "TypeError"
    ELSE IF ~ IsUnique(args[1]) THEN "ValueError"
    ELSE ""

\* ---------------------------------------------------- interpolation.py
\* areal_interpolation.areal_checks: the step every facade method starts with.
\* `sources, sid = _check_uid(self.sources, self.sid)` hands two arguments to
\* the one-parameter _check_uid.
areal_checks(S, T, extensive, intensive, sid, tid) ==
    IF extensive = None /\ intensive = None THEN Raise("ValueError", S, T, <<>>)
    ELSE IF _check_crs_exists(S) # "" THEN Raise(_check_crs_exists(S), S, T, <<>>)
    ELSE IF _check_crs_exists(T) # "" THEN Raise(_check_crs_exists(T), S, T, <<>>)
    ELSE
    LET st == _check_crs_match(S, T) IN
    IF _check_uid(<<S, sid>>) # "" THEN Raise(_check_uid(<<S, sid>>), S, T, st)
    ELSE IF _check_uid(<<T, tid>>) # "" THEN Raise(_check_uid(<<T, tid>>), S, T, st)
    ELSE Outcome("checked", "", NoFrame, S, T, st \o <<"validated">>)

\* A facade method: areal_checks, then the estimator on copies of the two
\* collections, so that what the estimator writes stays in the copies.
Facade(chk, est) ==
    IF chk.kind = "raise" THEN chk
    ELSE [est EXCEPT !.sources = chk.sources, !.targets = chk.targets,
                     !.steps = chk.steps \o est.steps]

\* areal_interpolation.areal_weighting: all_geoms is passed self.geoms.
facade_areal_weighting(S, T, extensive, intensive, weights, sid, tid, geoms, all_geoms) ==
    LET chk == areal_checks(S, T, extensive, intensive, sid, tid)
    IN Facade(chk, _areal_weighting(chk.sources, chk.targets, extensive, intensive,
                                    weights, sid, tid, geoms, geoms))

\* areal_interpolation.dasy
facade_dasy(S, T, mask, how, extensive, intensive, weights, sid, tid, geoms, all_geoms, order) ==
    LET chk == areal_checks(S, T, extensive, intensive, sid, tid)
    IN Facade(chk, _dasy(chk.sources, chk.targets, mask, how, extensive, intensive,
                         weights, sid, tid, geoms, all_geoms, order))

\* areal_interpolation.model
facade_model(S, T, df_fit, df_pred, extensive, intensive, sid, tid, fit_ok, coef) ==
    LET chk == areal_checks(S, T, extensive, intensive, sid, tid)
    IN Facade(chk, _model(chk.sources, chk.targets, df_fit, df_pred, extensive,
                          intensive, fit_ok, coef))

\* The arguments areal_interpolation.areal_geobootstrap hands to the
\* estimator whatever the caller asked for (interpolation.py:224-235).
FacadeR == 1000
FacadeBandwidth == 1000

\* areal_interpolation.areal_geobootstrap: an extensive variable is rejected
\* before the checks; the estimator gets literal arguments; with merge the two
\* arrays are written onto the checked copy of the targets, by position, and
\* without merge the method ends on an expression and returns None.
facade_areal_geobootstrap(S, T, extensive, intensive, sid, tid, r, kernel, metric, bandwidth, groupby, merge, seeds) ==
    IF extensive # None THEN Raise("ValueError", S, T, <<>>)
    ELSE
    LET chk == areal_checks(S, T, extensive, intensive, sid, tid) IN
    IF chk.kind = "raise" THEN chk
    ELSE
    LET est == _areal_geobootstrap(chk.sources, chk.targets, Some(FacadeR), "gaussian",
                                   "euclidean", FacadeBandwidth, intensive, sid, tid,
                                   "median", None, seeds)
    IN
    IF est.kind = "raise" THEN Facade(chk, est)
    ELSE IF merge
    THEN LET T1 == WithColumn(WithColumn(chk.targets, intensive, est.df.cols["stats"]),
                              "uncertainty", est.df.cols["std"])
         IN Facade(chk, [est EXCEPT !.kind = "frame", !.df = T1,
                                    !.steps = est.steps \o <<"assign">>])
    ELSE Facade(chk, [est EXCEPT !.kind = "None", !.df = NoFrame])

\* ------------------------------------------------------------- the calls
Kinds == {None, "pop"}
Weights == {"sum", "total", "mean"}
Hows == {"clip", "difference", "erase"}

\* Runs of adjacent cells: the polygons of the model.
Polygons == {lo..hi : lo \in Cells, hi \in Cells} \ {{}}

\* Every collection of the model has two rows; these are their positions.
RowPositions == <<1, 2>>
NRow == Len(RowPositions)

\* A call: the entry point and its arguments (those it does not take at their
\* defaults below).
NoCall ==
    [op |-> None, extensive |-> None, intensive |-> None, weights |-> None,
     sid |-> None, tid |-> None, geoms |-> FALSE, all_geoms |-> FALSE,
     how |-> None, mask |-> {}, order |-> <<>>, fit_ok |-> FALSE, coef |-> 0, x |-> <<>>,
     r |-> Unset, kernel |-> None, metric |-> None, bandwidth |-> 0, groupby |-> None,
     spread |-> None, merge |-> FALSE, seeds |-> <<>>]

CallsOf(op, weights, sids, geoms, all_geoms, hows, masks, orders, fit_oks, coefs, xs) ==
    {[op |-> op, extensive |-> e, intensive |-> i, weights |-> w, sid |-> sd[1],
      tid |-> sd[2], geoms |-> g, all_geoms |-> ag, how |-> h, mask |-> m,
      order |-> o, fit_ok |-> f, coef |-> cf, x |-> x,
      r |-> Unset, kernel |-> None, metric |-> None, bandwidth |-> 0, groupby |-> None,
      spread |-> None, merge |-> FALSE, seeds |-> <<>>] :
        e \in Kinds, i \in Kinds, w \in weights, sd \in sids, g \in geoms,
        ag \in all_geoms, h \in hows, m \in masks, o \in orders, f \in fit_oks,
        cf \in coefs, x \in xs}

Named == {<<"sid", "tid">>}
NamedOrNot == {<<"sid", "tid">>, <<None, None>>}
Masks == {1..m : m \in Cells}
Xs == [1..NRow -> 0..MaxVal]

ArealWeightingCalls ==
    CallsOf("_areal_weighting", Weights, Named, BOOLEAN, BOOLEAN,
            {None}, {{}}, {<<>>}, {FALSE}, {0}, {<<>>})

FacadeArealWeightingCalls ==
    CallsOf("facade.areal_weighting", Weights, NamedOrNot, BOOLEAN, BOOLEAN,
            {None}, {{}}, {<<>>}, {FALSE}, {0}, {<<>>})

DasyCalls ==
    CallsOf("_dasy", Weights, Named, {TRUE}, {FALSE},
            Hows, Masks, Orders(NRow), {FALSE}, {0}, {<<>>})

FacadeDasyCalls ==
    CallsOf("facade.dasy", {"sum", "total"}, NamedOrNot, {TRUE}, {FALSE},
            Hows, {1..1}, Orders(NRow), {FALSE}, {0}, {<<>>})

ModelCalls ==
    CallsOf("_model", {"sum"}, Named, {TRUE}, {FALSE},
            {None}, {{}}, {<<>>}, BOOLEAN, 1..MaxCoef, Xs)

ModelPredCalls ==
    CallsOf("_model_pred", {"sum"}, Named, {TRUE}, {FALSE},
            {None}, {{}}, {<<>>}, {TRUE}, 1..MaxCoef, Xs)

FacadeModelCalls ==
    CallsOf("facade.model", {"sum"}, NamedOrNot, {TRUE}, {FALSE},
            {None}, {{}}, {<<>>}, BOOLEAN, 1..MaxCoef, {[k \in 1..NRow |-> 1]})

\* A geobootstrap call: the kinds, the identifiers, r, the kernel with its
\* metric and bandwidth, the two statistics, merge, and the resampler's draws.
GeoCallsOf(op, kinds, sids, rs, settings, centres, spreads, merges, seeds) ==
    {[NoCall EXCEPT !.op = op, !.extensive = k[1], !.intensive = k[2], !.sid = sd[1],
                    !.tid = sd[2], !.geoms = TRUE, !.r = r, !.kernel = st[1],
                    !.metric = st[2], !.bandwidth = st[3], !.groupby = g, !.spread = sp,
                    !.merge = m, !.seeds = sq] :
        k \in kinds, sd \in sids, r \in rs, st \in settings, g \in centres,
        sp \in spreads, m \in merges, sq \in seeds}

Rs == {Unset} \cup {Some(n) : n \in 1..MaxR}
Settings == {<<"gaussian", "euclidean", 1000>>, <<"uniform", "manhattan", 1>>}
Centres == {"mean", "median", "mode"}
Spreads == {"std", "iqr", "var", "range"}

\* The streams of draws: for each target row, MaxR source rows.
Seeds == [1..NRow -> [1..MaxR -> 1..NRow]]

GeobootstrapCalls ==
    GeoCallsOf("_areal_geobootstrap", {<<None, "pop">>}, Named, Rs, Settings, Centres,
               {None} \cup Spreads, {TRUE}, Seeds)

FacadeGeobootstrapCalls ==
    GeoCallsOf("facade.areal_geobootstrap", Kinds \X Kinds, NamedOrNot, {Unset, Some(1)},
               Settings, {"mean", "median"}, {None}, BOOLEAN,
               {[i \in 1..NRow |-> [k \in 1..MaxR |-> 1]]})

\* The caller's frames: sources carry an identifier and the variable "pop",
\* targets an identifier and the columns in extra.
SourceFrame(crs, ids, geoms, vals) ==
    Frame(crs, RangeIndex(Len(ids)), geoms,
          ("sid" :> ids) @@ ("pop" :> [i \in 1..Len(vals) |-> R(vals[i])]))

TargetFrame(crs, index, ids, geoms, extra) ==
    Frame(crs, index, geoms, ("tid" :> ids) @@ extra)

NoResult == [kind |-> None, err |-> "", df |-> NoFrame]

\* One call: the outcome becomes the result, the caller's collections become
\* what the call left of them.
Do(c, out) ==
    /\ call' = c
    /\ result' = [kind |-> out.kind, err |-> out.err, df |-> out.df]
    /\ steps' = out.steps
    /\ sources' = out.sources
    /\ targets' = out.targets
    /\ resamples' = out.resamples
    /\ UNCHANGED given

\* A facade call works on the object's collections and hands copies on.
DoFacade(c, out) == Do(c, [out EXCEPT !.sources = sources, !.targets = targets])

ArealWeighting(C) ==
    \E c \in C :
    \E out \in {_areal_weighting(sources, targets, c.extensive, c.intensive, c.weights,
                                 c.sid, c.tid, c.geoms, c.all_geoms)} :
        Do(c, out)

FacadeArealWeighting(C) ==
    \E c \in C :
    \E out \in {facade_areal_weighting(sources, targets, c.extensive, c.intensive,
                                       c.weights, c.sid, c.tid, c.geoms, c.all_geoms)} :
        DoFacade(c, out)

Dasy(C) ==
    \E c \in C :
    \E out \in {_dasy(sources, targets, c.mask, c.how, c.extensive, c.intensive, c.weights,
                      c.sid, c.tid, c.geoms, c.all_geoms, c.order)} :
        Do(c, out)

FacadeDasy(C) ==
    \E c \in C :
    \E out \in {facade_dasy(sources, targets, c.mask, c.how, c.extensive, c.intensive,
                            c.weights, c.sid, c.tid, c.geoms, c.all_geoms, c.order)} :
        DoFacade(c, out)

Model(C) ==
    \E c \in C :
    \E out \in {_model(sources, targets, NoFrame, PredTable(RangeIndex(NRow), c.x),
                       c.extensive, c.intensive, c.fit_ok, c.coef)} :
        Do(c, out)

\* A direct call of _model_pred with a fitted model: the result is the
\* series of predictions under the prediction table's index.
ModelPred(C) ==
    \E c \in C :
    \E pred \in {_model_pred(sources, c.coef, PredTable(RangeIndex(NRow), c.x),
                             c.extensive, c.intensive)} :
        Do(c, Return(Frame(None, RangeIndex(NRow), <<>>, ("pred" :> pred)),
                     sources, targets, <<"predict">>))

FacadeModel(C) ==
    \E c \in C :
    \E out \in {facade_model(sources, targets, NoFrame, PredTable(RangeIndex(NRow), c.x),
                             c.extensive, c.intensive, c.sid, c.tid, c.fit_ok, c.coef)} :
        DoFacade(c, out)

\* A direct call of _areal_geobootstrap: col is the intensive variable.
Geobootstrap(C) ==
    \E c \in C :
    \E out \in {_areal_geobootstrap(sources, targets, c.r, c.kernel, c.metric, c.bandwidth,
                                    c.intensive, c.sid, c.tid, c.groupby, c.spread,
                                    c.seeds)} :
        Do(c, out)

FacadeGeobootstrap(C) ==
    \E c \in C :
    \E out \in {facade_areal_geobootstrap(sources, targets, c.extensive, c.intensive,
                                          c.sid, c.tid, c.r, c.kernel, c.metric,
                                          c.bandwidth, c.groupby, c.merge, c.seeds)} :
        DoFacade(c, out)

ExactlyOneKind(c) == (c.extensive = None) # (c.intensive = None)

\* ------------------------------------------------ every entry point, once
\* Collections that differ in what validation looks at: the reference
\* systems, the identifiers, a target column named like the variable.
Init ==
    /\ \E crs \in {<<"EPSG:27700", "EPSG:27700">>, <<"EPSG:27700", "EPSG:4326">>,
                   <<None, "EPSG:27700">>, <<"EPSG:27700", None>>},
          ids \in {<<<<1, 2>>, <<1, 2>>>>, <<<<1, 1>>, <<1, 2>>>>, <<<<1, 2>>, <<2, 2>>>>},
          c \in {1, NCells},
          extra \in {<<>>, ("pop" :> <<R(7), R(7)>>)} :
         /\ sources = SourceFrame(crs[1], ids[1], <<1..2, 3..NCells>>, <<1, MaxVal>>)
         /\ targets = TargetFrame(crs[2], RangeIndex(NRow), ids[2], <<1..c, c..NCells>>, extra)
    /\ given = [sources |-> sources, targets |-> targets]
    /\ call = NoCall
    /\ result = NoResult
    /\ steps = <<>>
    /\ resamples = NoSample

\* A call is made on the collections as the caller built them.
Fresh == call.op = None

SmallDasyCalls == {c \in DasyCalls : c.mask \in {1..1, 1..NCells}}
SmallModelCalls == {c \in ModelCalls : c.x = [k \in 1..NRow |-> 1]}
SmallGeobootstrapCalls ==
    {c \in GeobootstrapCalls : /\ c.seeds = [i \in 1..NRow |-> [k \in 1..MaxR |-> i]]
                               /\ c.kernel = "gaussian"}

CallArealWeighting == Fresh /\ ArealWeighting(ArealWeightingCalls)
CallFacadeArealWeighting == Fresh /\ FacadeArealWeighting(FacadeArealWeightingCalls)
CallDasy == Fresh /\ Dasy(SmallDasyCalls)
CallFacadeDasy == Fresh /\ FacadeDasy(FacadeDasyCalls)
CallModel == Fresh /\ Model(SmallModelCalls)
CallFacadeModel == Fresh /\ FacadeModel(FacadeModelCalls)
CallGeobootstrap == Fresh /\ Geobootstrap(SmallGeobootstrapCalls)
CallFacadeGeobootstrap == Fresh /\ FacadeGeobootstrap(FacadeGeobootstrapCalls)

Next ==
    \/ CallArealWeighting
    \/ CallFacadeArealWeighting
    \/ CallDasy
    \/ CallFacadeDasy
    \/ CallModel
    \/ CallFacadeModel
    \/ CallGeobootstrap
    \/ CallFacadeGeobootstrap

Spec == Init /\ [][Next]_vars

\* ------------------------------------------- areal weighting, one call
\* The values two sources may hold: any small pair, and the pair of the
\* worked example (100 each).
ValuePairs == ((0..MaxVal) \X (0..MaxVal)) \cup {<<100, 100>>}

\* Two sources, [1..a] and [b..NCells], with any values; two targets, any
\* polygon and a polygon ending at the last cell.
InitAW ==
    /\ \E a \in Cells, b \in Cells, v \in ValuePairs :
         sources = SourceFrame("EPSG:27700", <<1, 2>>, <<1..a, b..NCells>>, <<v[1], v[2]>>)
    /\ \E p \in Polygons, c \in Cells :
         targets = TargetFrame("EPSG:27700", RangeIndex(NRow), <<2, 1>>, <<p, c..NCells>>, <<>>)
    /\ given = [sources |-> sources, targets |-> targets]
    /\ call = NoCall
    /\ result = NoResult
    /\ steps = <<>>
    /\ resamples = NoSample

ValidArealWeightingCalls ==
    {c \in ArealWeightingCalls : ExactlyOneKind(c) /\ c.weights \in {"sum", "total"}}

WeightOnce == Fresh /\ ArealWeighting(ValidArealWeightingCalls)

NextAW == WeightOnce

SpecAW == InitAW /\ [][NextAW]_vars

\* ------------------------------------------------- dasymetric, one call
\* Two sources tiling the strip; targets as above, in either identifier
\* order and under a default, a permuted or a shifted index.
InitDasy ==
    /\ \E a \in 1..(NCells - 1), v1 \in 0..MaxVal :
         sources = SourceFrame("EPSG:27700", <<1, 2>>, <<1..a, (a + 1)..NCells>>,
                               <<v1, MaxVal>>)
    /\ \E p \in Polygons, c \in Cells, ids \in {<<1, 2>>, <<2, 1>>},
          index \in {<<0, 1>>, <<1, 0>>, <<1, 2>>} :
         targets = TargetFrame("EPSG:27700", index, ids, <<p, c..NCells>>, <<>>)
    /\ given = [sources |-> sources, targets |-> targets]
    /\ call = NoCall
    /\ result = NoResult
    /\ steps = <<>>
    /\ resamples = NoSample

ValidDasyCalls ==
    {c \in DasyCalls : /\ ExactlyOneKind(c)
                       /\ c.weights \in {"sum", "total"}
                       /\ c.how \in {"clip", "difference"}}

DasyOnce == Fresh /\ Dasy(ValidDasyCalls)

NextDasy == DasyOnce

SpecDasy == InitDasy /\ [][NextDasy]_vars

\* ------------------------------------------------- regression, one call
InitModel ==
    /\ \E a \in 1..(NCells - 1), v1 \in 0..MaxVal, v2 \in 0..MaxVal :
         sources = SourceFrame("EPSG:27700", <<1, 2>>, <<1..a, (a + 1)..NCells>>,
                               <<v1, v2>>)
    /\ \E index \in {<<0, 1>>, <<1, 0>>, <<1, 2>>} :
         targets = TargetFrame("EPSG:27700", index, <<1, 2>>, <<1..1, 2..NCells>>, <<>>)
    /\ given = [sources |-> sources, targets |-> targets]
    /\ call = NoCall
    /\ result = NoResult
    /\ steps = <<>>
    /\ resamples = NoSample

ModelOnce == Fresh /\ Model(ModelCalls)

ModelPredOnce == Fresh /\ ModelPred(ModelPredCalls)

NextModel == ModelOnce \/ ModelPredOnce

SpecModel == InitModel /\ [][NextModel]_vars

\* ----------------------------------------------- geobootstrap, one call
InitGeo ==
    /\ \E v1 \in 0..MaxVal, v2 \in 0..MaxVal :
         sources = SourceFrame("EPSG:27700", <<1, 2>>, <<1..2, 3..NCells>>, <<v1, v2>>)
    /\ targets = TargetFrame("EPSG:27700", RangeIndex(NRow), <<1, 2>>,
                             <<1..1, 2..NCells>>, <<>>)
    /\ given = [sources |-> sources, targets |-> targets]
    /\ call = NoCall
    /\ result = NoResult
    /\ steps = <<>>
    /\ resamples = NoSample

GeobootstrapOnce == Fresh /\ Geobootstrap(GeobootstrapCalls)

FacadeGeobootstrapOnce == Fresh /\ FacadeGeobootstrap(FacadeGeobootstrapCalls)

NextGeo == GeobootstrapOnce \/ FacadeGeobootstrapOnce

SpecGeo == InitGeo /\ [][NextGeo]_vars

\* ------------------------------------------------- any sequence of calls
\* Valid collections, on which one call follows another: every call works on
\* the collections as the calls before it left them.
InitSeq ==
    /\ \E v1 \in 0..MaxVal :
         sources = SourceFrame("EPSG:27700", <<1, 2>>, <<1..2, 3..NCells>>, <<v1, MaxVal>>)
    /\ \E c \in {1, NCells - 1} :
         targets = TargetFrame("EPSG:27700", RangeIndex(NRow), <<1, 2>>,
                               <<1..c, (c + 1)..NCells>>, <<>>)
    /\ given = [sources |-> sources, targets |-> targets]
    /\ call = NoCall
    /\ result = NoResult
    /\ steps = <<>>
    /\ resamples = NoSample

SeqArealWeightingCalls ==
    {c \in ArealWeightingCalls : c.weights \in {"sum", "total"} /\ c.geoms /\ ~ c.all_geoms}

SeqDasyCalls ==
    {c \in DasyCalls : /\ ExactlyOneKind(c)
                       /\ c.weights = "sum"
                       /\ c.how \in {"clip", "erase"}
                       /\ c.mask = 1..(NCells - 1)
                       /\ c.order = [k \in 1..NRow |-> k]}

SeqModelCalls == {c \in SmallModelCalls : ExactlyOneKind(c)}

SeqGeobootstrapCalls ==
    {c \in SmallGeobootstrapCalls : /\ c.r = Unset
                                    /\ c.groupby \in {"median", "mean"}
                                    /\ c.spread = None}

SeqFacadeCalls(C) ==
    {c \in C : /\ ExactlyOneKind(c)
               /\ c.sid = "sid"
               /\ c.weights \in {None, "sum"}
               /\ c.how \in {None, "clip"}
               /\ c.r = Unset
               /\ c.groupby \in {None, "median"}
               /\ c.coef \in {0, 1}
               /\ c.kernel \in {None, "gaussian"}}

ThenArealWeighting == ArealWeighting(SeqArealWeightingCalls)
ThenDasy == Dasy(SeqDasyCalls)
ThenModel == Model(SeqModelCalls)
ThenGeobootstrap == Geobootstrap(SeqGeobootstrapCalls)
ThenFacadeArealWeighting == FacadeArealWeighting(SeqFacadeCalls(FacadeArealWeightingCalls))
ThenFacadeDasy == FacadeDasy(SeqFacadeCalls(FacadeDasyCalls))
ThenFacadeModel == FacadeModel(SeqFacadeCalls(FacadeModelCalls))
ThenFacadeGeobootstrap == FacadeGeobootstrap(SeqFacadeCalls(FacadeGeobootstrapCalls))

NextSeq ==
    \/ ThenArealWeighting
    \/ ThenDasy
    \/ ThenModel
    \/ ThenGeobootstrap
    \/ ThenFacadeArealWeighting
    \/ ThenFacadeDasy
    \/ ThenFacadeModel
    \/ ThenFacadeGeobootstrap

SpecSeq == InitSeq /\ [][NextSeq]_vars

\* ------------------------------------------------------------ the claims
\* The estimate a returned frame holds for target identifier t: the frame is
\* the targets merged with the estimates, or the estimates indexed by tid.
HasEstimate(df, t) ==
    IF "tid" \in Columns(df)
    THEN \E k \in 1..NRows(df) : df.cols["tid"][k] = t
    ELSE \E k \in 1..NRows(df) : df.index[k] = t

EstimateOf(df, t) ==
    IF "tid" \in Columns(df)
    THEN df.cols["pop"][CHOOSE k \in 1..NRows(df) : df.cols["tid"][k] = t]
    ELSE df.cols["pop"][CHOOSE k \in 1..NRows(df) : df.index[k] = t]

\* Target row i lies inside source row j and shares no area with another source.
InsideOnly(i, j) ==
    /\ given.targets.geometry[i] \subseteq given.sources.geometry[j]
    /\ \A k \in 1..NRows(given.sources) :
          k # j => given.targets.geometry[i] \cap given.sources.geometry[k] = {}

Overlaps(T, S) == Fragments(T, S) # {}

SourceTotal == BuiltinSum(given.sources.cols["pop"])

ExtensiveCall == call.extensive # None /\ call.intensive = None
IntensiveCall == call.extensive = None /\ call.intensive # None

\* The aggregate the 'total' rescale divides by: the summed estimates of the
\* targets before any rescale.
UnscaledTotal ==
    BuiltinSum(GroupBySum(given.targets, WithColumn(given.sources, area, Areas(given.sources)),
                          "tid", "pop").cols["pop"])

WeightedTotal ==
    /\ call.op = "_areal_weighting"
    /\ ExtensiveCall
    /\ call.weights = "total"
    /\ result.kind = "frame"

\* C1 as stated: in 'total' mode, whenever some target overlaps some source,
\* the estimates sum to the sum of the variable over all sources.
C1_AsStated ==
    (WeightedTotal /\ Overlaps(given.targets, given.sources))
        => PandasSum(result.df.cols["pop"]) = SourceTotal

\* C1: in 'total' mode, whenever the targets' aggregated estimates before the
\* rescale have a non-zero sum, the estimates sum to the sum of the variable
\* over all sources, sources no target overlaps included.
C1_TotalConservesMass ==
    (WeightedTotal /\ UnscaledTotal # R(0))
        => PandasSum(result.df.cols["pop"]) = SourceTotal

\* A 'total' call that rescaled by a factor other than 1 while one source
\* overlaps no target, and conserved the total.
C1_Witness ==
    /\ WeightedTotal
    /\ UnscaledTotal # R(0)
    /\ UnscaledTotal # SourceTotal
    /\ \E j \in 1..NRows(given.sources) :
          /\ given.sources.cols["pop"][j] # R(0)
          /\ \A i \in 1..NRows(given.targets) :
                given.targets.geometry[i] \cap given.sources.geometry[j] = {}
    /\ PandasSum(result.df.cols["pop"]) = SourceTotal

WeightedSum(kind) ==
    /\ call.op = "_areal_weighting"
    /\ (IF kind = "extensive" THEN ExtensiveCall ELSE IntensiveCall)
    /\ call.weights = "sum"
    /\ result.kind = "frame"

TargetId(i) == given.targets.cols["tid"][i]

AreaOf(g) == R(Cardinality(g))

\* C3 as stated: extensive, 'sum' mode: a target inside exactly one source
\* receives exactly that source's value.
C3_AsStated ==
    WeightedSum("extensive") =>
        \A i \in 1..NRows(given.targets), j \in 1..NRows(given.sources) :
            InsideOnly(i, j) =>
                /\ HasEstimate(result.df, TargetId(i))
                /\ EstimateOf(result.df, TargetId(i)) = given.sources.cols["pop"][j]

\* C3: extensive, 'sum' mode: a target inside exactly one source receives
\* that source's value times (the target's area / the source's area).
C3_InsideGetsAreaShare ==
    WeightedSum("extensive") =>
        \A i \in 1..NRows(given.targets), j \in 1..NRows(given.sources) :
            InsideOnly(i, j) =>
                /\ HasEstimate(result.df, TargetId(i))
                /\ EstimateOf(result.df, TargetId(i)) =
                      RMul(given.sources.cols["pop"][j],
                           RDiv(AreaOf(given.targets.geometry[i]),
                                AreaOf(given.sources.geometry[j])))

\* A target strictly smaller than the one source it lies in, whose estimate
\* is a proper share of a non-zero source value.
C3_Witness ==
    /\ WeightedSum("extensive")
    /\ \E i \in 1..NRows(given.targets), j \in 1..NRows(given.sources) :
          /\ InsideOnly(i, j)
          /\ given.targets.geometry[i] # given.sources.geometry[j]
          /\ given.sources.cols["pop"][j] # R(0)
          /\ HasEstimate(result.df, TargetId(i))
          /\ EstimateOf(result.df, TargetId(i)) # given.sources.cols["pop"][j]

\* C4 as stated: intensive, 'sum' mode: a target inside exactly one source
\* receives that source's rate multiplied by the target's own area.
C4_AsStated ==
    WeightedSum("intensive") =>
        \A i \in 1..NRows(given.targets), j \in 1..NRows(given.sources) :
            InsideOnly(i, j) =>
                /\ HasEstimate(result.df, TargetId(i))
                /\ EstimateOf(result.df, TargetId(i)) =
                      RMul(given.sources.cols["pop"][j], AreaOf(given.targets.geometry[i]))

\* C4: intensive, 'sum' mode: a target inside exactly one source receives
\* exactly that source's value, whatever the target's area.
C4_InsideGetsRate ==
    WeightedSum("intensive") =>
        \A i \in 1..NRows(given.targets), j \in 1..NRows(given.sources) :
            InsideOnly(i, j) =>
                /\ HasEstimate(result.df, TargetId(i))
                /\ EstimateOf(result.df, TargetId(i)) = given.sources.cols["pop"][j]

\* A target of more than one cell, strictly inside one source of non-zero
\* rate, that received the rate.
C4_Witness ==
    /\ WeightedSum("intensive")
    /\ \E i \in 1..NRows(given.targets), j \in 1..NRows(given.sources) :
          /\ InsideOnly(i, j)
          /\ Cardinality(given.targets.geometry[i]) > 1
          /\ given.targets.geometry[i] # given.sources.geometry[j]
          /\ given.sources.cols["pop"][j] # R(0)
          /\ HasEstimate(result.df, TargetId(i))
          /\ EstimateOf(result.df, TargetId(i)) = given.sources.cols["pop"][j]


\* The aggregate the dasymetric rescale divides by: the summed estimates of
\* the masked targets the weighting returned.
DasyExtensive ==
    /\ call.op = "_dasy"
    /\ ExtensiveCall
    /\ call.how \in {"clip", "difference"}
    /\ result.kind = "frame"

MaskedTargets ==
    IF call.how = "clip" THEN Clip(given.targets, call.mask, call.order)
    ELSE Difference(given.targets, call.mask)

\* Some masked target overlaps a source that holds a non-zero value.
MaskedOverlapHoldsMass ==
    \E f \in Fragments(MaskedTargets, given.sources) :
        given.sources.cols["pop"][f[2]] # R(0)

\* C2: dasymetric, extensive: the estimates on the returned targets sum to
\* the sum of the variable over all sources, whatever the targets' index
\* (stated for the inputs on which the rescale has something to scale).
C2_DasyConservesMass ==
    (DasyExtensive /\ MaskedOverlapHoldsMass)
        => PandasSum(result.df.cols["pop"]) = SourceTotal

\* The same under the index pandas gives a new frame, 0 .. n-1 in row order.
C2_UnderRangeIndex ==
    (DasyExtensive /\ MaskedOverlapHoldsMass /\ given.targets.index = RangeIndex(NRow))
        => PandasSum(result.df.cols["pop"]) = SourceTotal

Valid(df, id) ==
    /\ df.crs # None
    /\ id \in Columns(df)
    /\ IsUnique(df.cols[id])

\* The targets that share area with at least one source.
Intersecting == {i \in 1..NRows(given.targets) :
                    \E j \in 1..NRows(given.sources) :
                        given.targets.geometry[i] \cap given.sources.geometry[j] # {}}

\* A frame with one row per target row in rows and no other row.
OneRowPer(df, rows) ==
    /\ "tid" \in Columns(df)
    /\ NRows(df) = Cardinality(rows)
    /\ \A i \in rows : \E k \in 1..NRows(df) : df.cols["tid"][k] = TargetId(i)

\* C5: areal weighting that returns geometries, direct or through the
\* facade: without all_geoms one row per intersecting target; with all_geoms
\* one row per target, the targets that intersect no source with a missing
\* estimate.
C5_JoinPolicy ==
    ( /\ call.op \in {"_areal_weighting", "facade.areal_weighting"}
      /\ ExtensiveCall \/ (IntensiveCall /\ call.weights = "sum")
      /\ call.weights \in {"sum", "total"}
      /\ call.geoms
      /\ call.sid = "sid" /\ call.tid = "tid"
      /\ Valid(given.sources, "sid") /\ Valid(given.targets, "tid")
      /\ given.sources.crs = given.targets.crs
      /\ "pop" \notin Columns(given.targets) )
    => /\ result.kind = "frame"
       /\ "pop" \in Columns(result.df)
       /\ IF call.all_geoms
          THEN /\ OneRowPer(result.df, 1..NRows(given.targets))
               /\ \A i \in 1..NRows(given.targets) \ Intersecting :
                     EstimateOf(result.df, TargetId(i)) = NaN
          ELSE OneRowPer(result.df, Intersecting)

\* The same for the direct call alone.
C5_DirectCall == call.op = "_areal_weighting" => C5_JoinPolicy

EstimatorOps == {"_areal_weighting", "_dasy", "_model"}

\* C6: an estimator called with both kinds set raises a configuration error
\* (ValueError) before any stage (mask, overlay, fit, ...) is computed.
C6_BothKindsRejectedFirst ==
    (call.op \in EstimatorOps /\ call.extensive # None /\ call.intensive # None)
        => /\ result.kind = "raise"
           /\ result.err = "ValueError"
           /\ steps = <<>>

\* C7: a call with neither kind set raises; it never returns, not even None.
C7_NeitherKindRejected ==
    (call.op # None /\ call.extensive = None /\ call.intensive = None)
        => result.kind = "raise"

ModelPredCall == call.op = "_model_pred"

RawPredictions == Predict(call.coef, PredTable(RangeIndex(NRow), call.x))

\* C8: regression: extensive predictions with a non-zero raw sum are
\* calibrated to sum to the sources' total; intensive predictions are the raw
\* predictions, one per row of the prediction table in row order.
C8_Calibration ==
    /\ (ModelPredCall /\ ExtensiveCall /\ BuiltinSum(RawPredictions) # R(0))
          => PandasSum(result.df.cols["pred"]) = SourceTotal
    /\ (ModelPredCall /\ IntensiveCall)
          => result.df.cols["pred"] = RawPredictions

\* An extensive call whose raw predictions differ and do not sum to the
\* sources' total, calibrated to it.
C8_Witness ==
    /\ ModelPredCall
    /\ ExtensiveCall
    /\ BuiltinSum(RawPredictions) # R(0)
    /\ BuiltinSum(RawPredictions) # SourceTotal
    /\ RawPredictions[1] # RawPredictions[2]
    /\ result.df.cols["pred"] # RawPredictions
    /\ PandasSum(result.df.cols["pred"]) = SourceTotal

\* The entry points that write an estimate onto the targets: the facade's
\* methods and the estimators they dispatch to.
WritingOps ==
    {"facade.areal_weighting", "facade.dasy", "facade.model",
     "_areal_weighting", "_dasy", "_model"}

DeclaredVar == IF call.extensive # None THEN call.extensive ELSE call.intensive

\* C9: a call whose declared variable is already a column of the targets is
\* rejected, and that column keeps its values: on the caller's targets and on
\* whatever is returned.
C9_NoOverwrite ==
    ( /\ call.op \in WritingOps
      /\ ExtensiveCall \/ IntensiveCall
      /\ DeclaredVar \in Columns(given.targets) )
    => /\ result.kind = "raise"
       /\ targets.cols[DeclaredVar] = given.targets.cols[DeclaredVar]

FacadeOps == {"facade.areal_weighting", "facade.dasy", "facade.model"}

\* C10: the facade's validation, given reference systems and exactly one
\* kind, returns normally when no identifier is named or the named column is
\* unique, and fails with a ValueError when the named column repeats a value.
C10_IdentifiersResolved ==
    ( /\ call.op \in FacadeOps
      /\ ExtensiveCall \/ IntensiveCall
      /\ given.sources.crs # None /\ given.targets.crs # None )
    => IF \/ call.sid = None
          \/ IsUnique(given.sources.cols["sid"]) /\ IsUnique(given.targets.cols["tid"])
       THEN "validated" \in Range(steps)
       ELSE result.kind = "raise" /\ result.err = "ValueError"

\* Every method of the facade that starts with areal_checks.
FacadeMethods == FacadeOps \cup {"facade.areal_geobootstrap"}

\* A facade call whose kinds the method accepts: exactly one kind, and the
\* intensive one for the geobootstrap.
FacadeKindsAccepted ==
    /\ call.op \in FacadeMethods
    /\ ExtensiveCall \/ IntensiveCall
    /\ call.op = "facade.areal_geobootstrap" => IntensiveCall

MissingCrs == given.sources.crs = None \/ given.targets.crs = None

IdentifiersUsable ==
    \/ call.sid = None
    \/ IsUnique(given.sources.cols["sid"]) /\ IsUnique(given.targets.cols["tid"])

\* C11: on every facade path, a collection without a CRS makes the call fail
\* with the missing-CRS error (KeyError) before identifier resolution and any
\* estimator stage; two differing CRS only emit a notice, and the call goes
\* on through identifier resolution to the estimator.
C11_CrsChecks ==
    FacadeKindsAccepted =>
        IF MissingCrs
        THEN result.kind = "raise" /\ result.err = "KeyError" /\ steps = <<>>
        ELSE (given.sources.crs # given.targets.crs /\ IdentifiersUsable)
                => /\ "crs_notice" \in Range(steps)
                   /\ "validated" \in Range(steps)

\* The part of C11 that is about the checks of the CRS themselves: the
\* missing-CRS error comes first, and a mismatch emits its notice and does not
\* raise the missing-CRS error.
C11_CrsChecksThemselves ==
    FacadeKindsAccepted =>
        IF MissingCrs
        THEN result.kind = "raise" /\ result.err = "KeyError" /\ steps = <<>>
        ELSE /\ given.sources.crs # given.targets.crs <=> "crs_notice" \in Range(steps)
             /\ result.err # "KeyError"

\* A direct call of areal weighting with exactly one kind and a weighting
\* mode that is neither 'sum' nor 'total'.
UnsupportedWeights ==
    /\ call.op = "_areal_weighting"
    /\ ExtensiveCall \/ IntensiveCall
    /\ call.weights \notin {"sum", "total"}

\* C12: areal weighting with a weighting mode other than 'sum' or 'total'
\* raises a configuration error (ValueError) before any area, overlay or
\* aggregation is computed, for an extensive and for an intensive variable.
C12_UnsupportedWeightsRejected ==
    UnsupportedWeights =>
        /\ result.kind = "raise"
        /\ result.err = "ValueError"
        /\ steps = <<>>

\* The intensive half of C12.
C12_IntensiveOnly == IntensiveCall => C12_UnsupportedWeightsRejected

\* The values the resampler drew for target row i: the variable on the
\* source rows it drew.
SampledValues(i) ==
    [k \in 1..Len(resamples.gs[i]) |-> given.sources.cols["pop"][resamples.gs[i][k]]]

Count(a, x) == Cardinality({k \in 1..Len(a) : a[k] = x})

\* The most frequent value, the smallest of them when several tie.
ModeOf(a) ==
    CHOOSE x \in Range(a) :
        \A y \in Range(a) :
            \/ Count(a, x) > Count(a, y)
            \/ Count(a, x) = Count(a, y) /\ RLeq(x, y)

\* The quantile num/den of sorted values, interpolated linearly between the
\* two values around it.
Quantile(v, num, den) ==
    LET n == Len(v)
        lo == ((n - 1) * num) \div den
        frac == Norm(((n - 1) * num) % den, den)
    IN IF lo + 2 > n THEN v[lo + 1]
       ELSE RAdd(v[lo + 1], RMul(frac, RSub(v[lo + 2], v[lo + 1])))

\* The statistic of central tendency of that name.
CentreOf(name, a) ==
    IF name = "mean" THEN RDiv(BuiltinSum(a), R(Len(a)))
    ELSE IF name = "median" THEN Quantile(SortValues(a), 1, 2)
    ELSE ModeOf(a)

MeanSquaredDeviation(a) ==
    LET m == RDiv(BuiltinSum(a), R(Len(a)))
    IN RDiv(BuiltinSum([k \in 1..Len(a) |-> RMul(RSub(a[k], m), RSub(a[k], m))]),
            R(Len(a)))

\* The statistic of spread of that name; the standard deviation is the square
\* root of the variance.
SpreadOf(name, a) ==
    LET v == SortValues(a) IN
    IF name = "std" THEN [sqrt |-> MeanSquaredDeviation(a)]
    ELSE IF name = "var" THEN [exact |-> MeanSquaredDeviation(a)]
    ELSE IF name = "range" THEN [exact |-> RSub(v[Len(v)], v[1])]
    ELSE [exact |-> RSub(Quantile(v, 3, 4), Quantile(v, 1, 4))]

GeobootstrapCall == call.op = "_areal_geobootstrap"

\* C13: a geobootstrap call that requests any of mean, median, mode and any
\* of standard deviation, inter-quartile range, variance, range is accepted
\* and returns, for every target, exactly the requested statistic of central
\* tendency and the requested statistic of spread of its resampled values.
C13_RequestedStatistics ==
    (GeobootstrapCall /\ call.groupby \in Centres /\ call.spread \in Spreads)
        => /\ result.kind = "pair"
           /\ \A i \in 1..NRows(given.targets) :
                 /\ result.df.cols["stats"][i] = CentreOf(call.groupby, SampledValues(i))
                 /\ result.df.cols["std"][i] = SpreadOf(call.spread, SampledValues(i))

\* What the estimator does support: the median, requested without naming a
\* statistic of spread, comes with the standard deviation.
C13_MedianWithStd ==
    (GeobootstrapCall /\ call.groupby = "median" /\ call.spread = None)
        => /\ result.kind = "pair"
           /\ \A i \in 1..NRows(given.targets) :
                 /\ result.df.cols["stats"][i] = CentreOf("median", SampledValues(i))
                 /\ result.df.cols["std"][i] = SpreadOf("std", SampledValues(i))

\* Any other statistic of central tendency is refused.
C13_OnlyMedian ==
    (GeobootstrapCall /\ call.groupby # "median") => result.kind = "raise"

\* A call that came back without raising, through a method of the facade or
\* straight from an estimator whose return value the facade hands on as it
\* is (areal weighting with all_geoms as the facade sets it, from geoms).
ReturnedToCaller ==
    /\ call.op \in FacadeMethods \cup EstimatorOps
    /\ ExtensiveCall \/ IntensiveCall
    /\ call.op = "_areal_weighting" => call.all_geoms = call.geoms
    /\ result.kind # "raise"

\* The columns a call may add: the estimate, and on the geobootstrap path the
\* uncertainty.
NewColumns ==
    {DeclaredVar} \cup (IF call.op = "facade.areal_geobootstrap" THEN {"uncertainty"} ELSE {})

\* Every row of df is a target of the caller, found by its identifier, with
\* that target's geometry.
RowsAreTargets(df) ==
    /\ "tid" \in Columns(df)
    /\ Len(df.geometry) = NRows(df)
    /\ \A k \in 1..NRows(df) :
          \E i \in 1..NRows(given.targets) :
              /\ df.cols["tid"][k] = TargetId(i)
              /\ df.geometry[k] = given.targets.geometry[i]

\* C14: a call that succeeds returns the target collection with exactly one
\* new column, the estimate named after the declared variable (and the
\* uncertainty on the geobootstrap path), on rows joined by target
\* identifier; it returns nothing else.
C14_OneNewColumn ==
    ReturnedToCaller =>
        /\ result.kind = "frame"
        /\ DeclaredVar \notin Columns(given.targets)
        /\ Columns(result.df) = Columns(given.targets) \cup NewColumns
        /\ RowsAreTargets(result.df)

\* The same for an extensive variable returned with geometries.
C14_ExtensiveWithGeoms ==
    (ExtensiveCall /\ call.geoms /\ call.op \in {"_areal_weighting", "_dasy"})
        => C14_OneNewColumn

\* What source row j allocates to target row i: its value times the area
\* they share over the reference area, the source's for an extensive variable
\* and the target's for an intensive one; nothing when they share no area.
Share(i, j, kind) ==
    LET shared == given.targets.geometry[i] \cap given.sources.geometry[j]
        reference == IF kind = "extensive" THEN given.sources.geometry[j]
                     ELSE given.targets.geometry[i]
    IN IF shared = {} THEN R(0)
       ELSE RMul(given.sources.cols["pop"][j], RDiv(AreaOf(shared), AreaOf(reference)))

\* The sum of what the first n sources allocate to target row i.
RECURSIVE Allocated(_, _, _)
Allocated(i, kind, n) ==
    IF n = 0 THEN R(0) ELSE RAdd(Allocated(i, kind, n - 1), Share(i, n, kind))

\* Target row i covers exactly half of source row j.
CoversHalf(i, j) ==
    2 * Cardinality(given.targets.geometry[i] \cap given.sources.geometry[j])
        = Cardinality(given.sources.geometry[j])

\* The worked example: two sources of equal area that share none, 100 each.
TwoEqualSources ==
    /\ Cardinality(given.sources.geometry[1]) = Cardinality(given.sources.geometry[2])
    /\ given.sources.geometry[1] \cap given.sources.geometry[2] = {}
    /\ given.sources.cols["pop"] = <<R(100), R(100)>>

\* C15: in 'sum' mode the estimate of every target that intersects a source
\* is the sum over the sources of value * shared area / reference area, not
\* rescaled, and a target that intersects none has no estimate (or a missing
\* one); so a target covering half of each of two equal sources that hold
\* 100 each gets 100.
C15_SumModeFormula ==
    \A kind \in {"extensive", "intensive"} :
        WeightedSum(kind) =>
            /\ \A i \in Intersecting :
                  /\ HasEstimate(result.df, TargetId(i))
                  /\ EstimateOf(result.df, TargetId(i))
                        = Allocated(i, kind, NRows(given.sources))
            /\ \A i \in 1..NRows(given.targets) \ Intersecting :
                  HasEstimate(result.df, TargetId(i))
                      => EstimateOf(result.df, TargetId(i)) = NaN
            /\ (kind = "extensive" /\ TwoEqualSources) =>
                  \A i \in 1..NRows(given.targets) :
                      (CoversHalf(i, 1) /\ CoversHalf(i, 2))
                          => EstimateOf(result.df, TargetId(i)) = R(100)

\* The worked example happened: a target covering half of each of two equal
\* sources of 100 got 50 from each, 100 in all.
C15_Witness ==
    /\ WeightedSum("extensive")
    /\ TwoEqualSources
    /\ \E i \in 1..NRows(given.targets) :
          /\ CoversHalf(i, 1) /\ CoversHalf(i, 2)
          /\ Share(i, 1, "extensive") = R(50)
          /\ Share(i, 2, "extensive") = R(50)
          /\ HasEstimate(result.df, TargetId(i))
          /\ EstimateOf(result.df, TargetId(i)) = R(100)

\* An intensive estimate that mixes two sources of different rates.
C15_IntensiveWitness ==
    /\ WeightedSum("intensive")
    /\ \E i \in Intersecting :
          /\ Share(i, 1, "intensive") # R(0)
          /\ Share(i, 2, "intensive") # R(0)
          /\ given.sources.cols["pop"][1] # given.sources.cols["pop"][2]
          /\ EstimateOf(result.df, TargetId(i)) = Allocated(i, "intensive", 2)

\* What masking leaves of target row i.
MaskedGeometry(i) ==
    IF call.how = "clip" THEN given.targets.geometry[i] \cap call.mask
    ELSE given.targets.geometry[i] \ call.mask

\* The extensive estimate of masked target row i before the rescale: the sum
\* over the first n sources of value * shared area / source area.
RECURSIVE MaskedEstimate(_, _)
MaskedEstimate(i, n) ==
    IF n = 0 THEN R(0)
    ELSE LET shared == MaskedGeometry(i) \cap given.sources.geometry[n]
         IN RAdd(MaskedEstimate(i, n - 1),
                 RMul(given.sources.cols["pop"][n],
                      RDiv(AreaOf(shared), AreaOf(given.sources.geometry[n]))))

\* The sum of those estimates over the first m target rows.
RECURSIVE MaskedTotal(_)
MaskedTotal(m) ==
    IF m = 0 THEN R(0)
    ELSE RAdd(MaskedTotal(m - 1), MaskedEstimate(m, NRows(given.sources)))

\* The rescaled value of the masked target with the identifier of row i; a
\* target of which masking leaves nothing has none.
RescaledFor(i) ==
    IF MaskedGeometry(i) = {} THEN NaN
    ELSE RMul(MaskedEstimate(i, NRows(given.sources)),
              RDiv(SourceTotal, MaskedTotal(NRows(given.targets))))

\* C16: dasymetric, extensive: the returned collection has one row per
\* original target, with its unmasked geometry, and the row of identifier t
\* holds the rescaled value of the masked target of identifier t, a missing
\* value when masking left nothing of it; also when masking drops or reorders
\* targets.
C16_RejoinedByIdentifier ==
    (DasyExtensive /\ MaskedOverlapHoldsMass) =>
        /\ NRows(result.df) = NRows(given.targets)
        /\ \A i \in 1..NRows(given.targets) :
              \E k \in 1..NRows(result.df) :
                  /\ result.df.cols["tid"][k] = TargetId(i)
                  /\ result.df.geometry[k] = given.targets.geometry[i]
                  /\ result.df.cols["pop"][k] = RescaledFor(i)

IdentityOrder == [k \in 1..NRow |-> k]

\* The same when nothing moves: the targets carry the default index, masking
\* leaves something of each and returns them in their order.
C16_WhenNothingMoves ==
    ( /\ given.targets.index = RangeIndex(NRow)
      /\ \A i \in 1..NRows(given.targets) : MaskedGeometry(i) # {}
      /\ call.how = "clip" => call.order = IdentityOrder )
    => C16_RejoinedByIdentifier

\* The same columns with the same values, row for row.
SameColumnsAndValues(df, before) ==
    /\ Columns(df) = Columns(before)
    /\ \A c \in Columns(before) : df.cols[c] = before.cols[c]

\* C17: after any sequence of calls, successful or failed, the caller's
\* source and target collections have the columns and the values they had
\* before the first call.
C17_InputsUntouched ==
    /\ SameColumnsAndValues(sources, given.sources)
    /\ SameColumnsAndValues(targets, given.targets)

\* The calls that do leave their inputs alone: no call of a facade method
\* and no call of _areal_geobootstrap changes either collection.
C17_CopiesAreUntouched ==
    [][call'.op \in FacadeMethods \cup {"_areal_geobootstrap"}
          => sources' = sources /\ targets' = targets]_vars

\* What the writes lead to (a reachable state): an intensive call of
\* _areal_weighting, valid on the collections as built, that fails on the
\* column 'Aj' an earlier extensive call left on the sources.
C17_LeftoverBreaksNextCall ==
    /\ call.op = "_areal_weighting"
    /\ IntensiveCall
    /\ call.weights = "sum"
    /\ "pop" \notin Columns(targets)
    /\ result.kind = "raise"
    /\ result.err = "KeyError"
    /\ area \in Columns(sources) \cap Columns(targets)

GeobootstrapOps == {"_areal_geobootstrap", "facade.areal_geobootstrap"}

\* A geobootstrap call the estimator supports, on valid collections: an
\* intensive variable, the median, no statistic of spread named.
SupportedGeobootstrap ==
    /\ call.op \in GeobootstrapOps
    /\ IntensiveCall
    /\ call.groupby = "median"
    /\ call.spread = None
    /\ ~ MissingCrs
    /\ IdentifiersUsable

\* The number of resamples the caller asked for: r, or the number of targets
\* when r is left unspecified.
RequestedR == IF call.r = Unset THEN NRows(given.targets) ELSE call.r[1]

\* C18: on the geobootstrap path, through the facade and directly, the
\* resampler draws for every target as many resamples as the caller asked
\* for, with the kernel, the metric and the bandwidth the caller asked for.
C18_AsRequested ==
    SupportedGeobootstrap =>
        /\ resamples.r = RequestedR
        /\ Len(resamples.gs) = NRows(given.targets)
        /\ \A i \in 1..NRows(given.targets) : Len(resamples.gs[i]) = RequestedR
        /\ resamples.kernel = call.kernel
        /\ resamples.metric = call.metric
        /\ resamples.bandwidth = call.bandwidth

\* The same for the direct call of the estimator alone.
C18_DirectCall == call.op = "_areal_geobootstrap" => C18_AsRequested

\* A direct call that left r unspecified and drew as many resamples as there
\* are targets, and one that asked for another number and got it.
C18_DirectDefaultReached ==
    /\ call.op = "_areal_geobootstrap" /\ SupportedGeobootstrap
    /\ call.r = Unset
    /\ \A i \in 1..NRows(given.targets) : Len(resamples.gs[i]) = NRows(given.targets)

C18_DirectOtherReached ==
    /\ call.op = "_areal_geobootstrap" /\ SupportedGeobootstrap
    /\ call.r # Unset /\ call.r # Some(NRows(given.targets))
    /\ \A i \in 1..NRows(given.targets) : Len(resamples.gs[i]) = call.r[1]

====
